---------------------------- MODULE Spec2Model ----------------------------
(* Operator-generating units of elemental.h (a port of Boost.Operators).    *)
(*                                                                          *)
(* A composing type T supplies primitive operators (<, >, ==, op=, ++, --)  *)
(* and derives from generator units, which synthesize further operators     *)
(* from the primitives.  The state is the composing type (its primitives,   *)
(* which the library never restricts), the operand objects, and the         *)
(* outcome of the operator call made last.  Bundles are empty structs that  *)
(* only name their bases; they are modelled by the instantiation of their   *)
(* base classes, one class template specialization at a time.               *)
EXTENDS Integers, Sequences, FiniteSets, TLC

\* ------------------------------------------------------------------ bounds
MaxVal == 2      \* number of values of the self type T
MaxU == 1        \* number of values of the other operand type U
MaxSample == 3   \* number of values of T in the sample orderings (equivalent)
MaxCalls == 3    \* longest sequence of postfix calls on one object
Width == 3       \* bit width of the integer type composing additive<T>

Val == 0 .. (MaxVal - 1)
UVal == 0 .. (MaxU - 1)
Sample == 0 .. (MaxSample - 1)
Word == 0 .. (2 ^ Width - 1)

VARIABLES
    ty,      \* the composing type: the unit it derives from and its primitives
    op,      \* the operator called last ("none" before the first call)
    args,    \* the operand values as passed to that call
    x,       \* the left operand object after the call
    y,       \* the right operand object after the call
    ret,     \* the value the call returned
    hist,    \* calls recorded so far, oldest first: the postfix calls on x,
             \* the operators of an expression, the base classes named again
    stack,   \* class template specializations still to be instantiated
    insts,   \* specializations instantiated so far
    defs     \* operator signature -> the specializations that define it

vars == <<ty, op, args, x, y, ret, hist, stack, insts, defs>>

\* ------------------------------------------------- primitives of the type
\* x < y as the composing type defines it (T < T, or T < U)
Less(t, a, b) == <<a, b>> \in t.lt
\* x > y as the composing type defines it (T > U; heterogeneous units only)
Greater(t, a, b) == <<a, b>> \in t.gt
\* x == y as the composing type defines it (T == T, or T == U)
Equal(t, a, b) == <<a, b>> \in t.eq

\* ---------------------------------------------------- less_than_comparable
\* less_than_comparable<T, T>: operator>(T, T)
LtcGtTT(t, a, b) == Less(t, b, a)

LtcLeTT_PartialOrderStyle(t, a, b) == Less(t, a, b) \/ Equal(t, a, b)
\* less_than_comparable<T, T>: operator<=(T, T)
LtcLeTT(t, a, b) == ~Less(t, b, a)

LtcGeTT_Swapped(t, a, b) == ~Less(t, b, a)
\* less_than_comparable<T, T>: operator>=(T, T)
LtcGeTT(t, a, b) == ~Less(t, a, b)

\* less_than_comparable<T, U>: operator<=(T, U)
LtcLeTU(t, a, b) == ~Greater(t, a, b)
\* less_than_comparable<T, U>: operator>=(T, U)
LtcGeTU(t, a, b) == ~Less(t, a, b)
\* less_than_comparable<T, U>: operator>(U, T)
LtcGtUT(t, a, b) == Less(t, b, a)
\* less_than_comparable<T, U>: operator<(U, T)
LtcLtUT(t, a, b) == Greater(t, b, a)
\* less_than_comparable<T, U>: operator<=(U, T)
LtcLeUT(t, a, b) == ~Less(t, b, a)
\* less_than_comparable<T, U>: operator>=(U, T)
LtcGeUT(t, a, b) == ~Greater(t, b, a)

\* ----------------------------------------------------- equality_comparable
\* equality_comparable<T, U>: operator==(U, T)
EqcEqUT(t, a, b) == Equal(t, b, a)

EqcNeUT_NotNegated(t, a, b) == Equal(t, b, a)
\* equality_comparable<T, U>: operator!=(U, T)
EqcNeUT(t, a, b) == ~Equal(t, b, a)
\* equality_comparable<T, U>: operator!=(T, U)
EqcNeTU(t, a, b) == ~Equal(t, a, b)
\* equality_comparable<T, T>: operator!=(T, T)
EqcNeTT(t, a, b) == ~Equal(t, a, b)

\* -------------------------------------------------------------- equivalent
EqvEqTT_OneSided(t, a, b) == ~Less(t, a, b)
\* equivalent<T, T>: operator==(T, T); && evaluates y < x only if !(x < y)
EqvEqTT(t, a, b) == ~Less(t, a, b) /\ ~Less(t, b, a)

\* The derived comparison operator named o, applied to (a, b) for type t.
Compare(o, t, a, b) ==
    CASE o = "gtTT" -> LtcGtTT(t, a, b)
      [] o = "leTT" -> LtcLeTT(t, a, b)
      [] o = "geTT" -> LtcGeTT(t, a, b)
      [] o = "leTU" -> LtcLeTU(t, a, b)
      [] o = "geTU" -> LtcGeTU(t, a, b)
      [] o = "gtUT" -> LtcGtUT(t, a, b)
      [] o = "ltUT" -> LtcLtUT(t, a, b)
      [] o = "leUT" -> LtcLeUT(t, a, b)
      [] o = "geUT" -> LtcGeUT(t, a, b)
      [] o = "eqUT" -> EqcEqUT(t, a, b)
      [] o = "neUT" -> EqcNeUT(t, a, b)
      [] o = "neTU" -> EqcNeTU(t, a, b)
      [] o = "neTT" -> EqcNeTT(t, a, b)
      [] o = "eqvTT" -> EqvEqTT(t, a, b)

\* The comparison operators each unit defines, by the template form selected.
OpsTT(u) ==
    CASE u = "less_than_comparable" -> {"gtTT", "leTT", "geTT"}
      [] u = "equality_comparable" -> {"neTT"}
      [] u = "equivalent" -> {"eqvTT"}
      [] OTHER -> {}
OpsTU(u) ==
    CASE u = "less_than_comparable" -> {"leTU", "geTU"}
      [] u = "equality_comparable" -> {"neTU"}
      [] OTHER -> {}
OpsUT(u) ==
    CASE u = "less_than_comparable" -> {"gtUT", "ltUT", "leUT", "geUT"}
      [] u = "equality_comparable" -> {"eqUT", "neUT"}
      [] OTHER -> {}

\* Composing types: every relation is a possible primitive.
CmpType(u, f, l, g, e) == [unit |-> u, form |-> f, lt |-> l, gt |-> g, eq |-> e]
CmpTypes ==
    {CmpType("less_than_comparable", "TT", l, {}, {}) : l \in SUBSET (Val \X Val)}
    \cup {CmpType("less_than_comparable", "TU", l[1], l[2], {}) :
            l \in (SUBSET (Val \X UVal)) \X (SUBSET (Val \X UVal))}
    \cup {CmpType("equality_comparable", "TT", {}, {}, e) : e \in SUBSET (Val \X Val)}
    \cup {CmpType("equality_comparable", "TU", {}, {}, e) : e \in SUBSET (Val \X UVal)}
    \cup {CmpType("equivalent", "TT", l, {}, {}) : l \in SUBSET (Sample \X Sample)}

IsCmp == ty.unit \in {"less_than_comparable", "equality_comparable", "equivalent"}
\* The values of T for the composed unit.
TVals == IF ty.unit = "equivalent" THEN Sample ELSE Val

\* A call of a comparison operator: operands are const references.
Called(o, a, b, r) ==
    /\ op' = o /\ args' = <<a, b>> /\ x' = a /\ y' = b /\ ret' = r
    /\ UNCHANGED <<ty, hist, stack, insts, defs>>

CallCompareTT ==
    /\ IsCmp /\ ty.form = "TT"
    /\ \E o \in OpsTT(ty.unit), a \in TVals, b \in TVals :
          Called(o, a, b, Compare(o, ty, a, b))
CallCompareTU ==
    /\ IsCmp /\ ty.form = "TU"
    /\ \E o \in OpsTU(ty.unit), a \in Val, b \in UVal :
          Called(o, a, b, Compare(o, ty, a, b))
CallCompareUT ==
    /\ IsCmp /\ ty.form = "TU"
    /\ \E o \in OpsUT(ty.unit), a \in UVal, b \in Val :
          Called(o, a, b, Compare(o, ty, a, b))

\* ------------------------------------------------------- partially_ordered
\* partially_ordered<T, T>: operator>(T, T)
PoGtTT(t, a, b) == Less(t, b, a)
\* partially_ordered<T, T>: operator<=(T, T); || evaluates x == y only if !(x < y)
PoLeTT(t, a, b) == Less(t, a, b) \/ Equal(t, a, b)
PoGeTT_ByNegation(t, a, b) == ~Less(t, a, b)
\* partially_ordered<T, T>: operator>=(T, T); || evaluates x == y only if !(y < x)
PoGeTT(t, a, b) == Less(t, b, a) \/ Equal(t, a, b)

\* The operator of partially_ordered<T, T> named o, applied to (a, b).
PartialCompare(o, t, a, b) ==
    CASE o = "poGtTT" -> PoGtTT(t, a, b)
      [] o = "poLeTT" -> PoLeTT(t, a, b)
      [] o = "poGeTT" -> PoGeTT(t, a, b)
PartialOpsTT == {"poGtTT", "poLeTT", "poGeTT"}

\* Types composing partially_ordered<T>: the type supplies < and == on
\* (T, T), and every pair of relations is a possible pair of primitives.
PartialTypes ==
    {CmpType("partially_ordered", "TT", l, {}, e) :
        l \in SUBSET (Val \X Val), e \in SUBSET (Val \X Val)}

\* A call of an operator of partially_ordered<T, T>. The operators are pure
\* and their operands const references, so a call made after another one
\* reaches the state it would reach as the first call: only first calls are
\* generated.
CallPartialTT ==
    /\ ty.unit = "partially_ordered" /\ ty.form = "TT" /\ op = "none"
    /\ \E o \in PartialOpsTT, a \in Val, b \in Val :
          Called(o, a, b, PartialCompare(o, ty, a, b))

\* ----------------------------------------------- incrementable, decrementable
\* ++x and --x as the composing type defines them: the value x has afterwards
PreInc(t, v) == t.inc[v]
PreDec(t, v) == t.dec[v]

PostInc_DoubleStep(t, v) == [ret |-> v, x |-> PreInc(t, PreInc(t, v))]
\* incrementable<T>: operator++(T&, int): T copy(x); ++x; return copy;
PostInc(t, v) ==
    LET copy == v
        x1 == PreInc(t, v)
    IN  [ret |-> copy, x |-> x1]
\* decrementable<T>: operator--(T&, int): T copy(x); --x; return copy;
PostDec(t, v) ==
    LET copy == v
        x1 == PreDec(t, v)
    IN  [ret |-> copy, x |-> x1]

\* Composing types: every function on the values is a possible ++ and --.
StepTypes ==
    {[unit |-> "unit_steppable", inc |-> f, dec |-> g] :
        f \in [Val -> Val], g \in [Val -> Val]}

\* x++ or x-- on the object x.
PostfixCalled(o, r) ==
    /\ ty.unit = "unit_steppable" /\ Len(hist) < MaxCalls
    /\ op' = o /\ args' = <<x>> /\ x' = r.x /\ ret' = r.ret
    /\ hist' = Append(hist, [op |-> o, args |-> <<x>>])
    /\ UNCHANGED <<ty, y, stack, insts, defs>>
CallPostInc == PostfixCalled("postinc", PostInc(ty, x))
CallPostDec == PostfixCalled("postdec", PostDec(ty, x))

\* ------------------------------------------------------- binary operators
\* copy op= w as the composing type defines it for the operator of
\* generator g: the value copy has afterwards
OpAssign(t, g, v, w) == t.assign[g][<<v, w>>]

\* PYCPP_BINARY_OPERATOR_COMMUTATIVE, name<T, U>: T operator op(const T&, const U&)
ComTU(t, g, a, b) ==
    LET copy == a
    IN  [ret |-> OpAssign(t, g, copy, b), x |-> a, y |-> b]

ComUT_NoApply(t, g, a, b) == [ret |-> b, x |-> a, y |-> b]
\* PYCPP_BINARY_OPERATOR_COMMUTATIVE, name<T, U>: T operator op(const U&, const T&)
ComUT(t, g, a, b) ==
    LET copy == b
    IN  [ret |-> OpAssign(t, g, copy, a), x |-> a, y |-> b]
\* PYCPP_BINARY_OPERATOR_COMMUTATIVE, name<T, T>: T operator op(const T&, const T&)
ComTT(t, g, a, b) ==
    LET copy == a
    IN  [ret |-> OpAssign(t, g, copy, b), x |-> a, y |-> b]

NonTT_Swapped(t, g, a, b) == [ret |-> OpAssign(t, g, b, a), x |-> a, y |-> b]
\* PYCPP_BINARY_OPERATOR_NON_COMMUTATIVE, name<T, T>: T operator op(const T&, const T&)
NonTT(t, g, a, b) ==
    LET copy == a
    IN  [ret |-> OpAssign(t, g, copy, b), x |-> a, y |-> b]

\* The generators the commutative macro is expanded for.
CommutativeUnits == {"multipliable", "addable", "xorable", "andable", "orable"}

\* Composing types of one commutative generator with U distinct from T:
\* every function is a possible op=.
ComTypes ==
    {[unit |-> g, form |-> "TU", assign |-> (g :> f)] :
        g \in CommutativeUnits, f \in [Val \X UVal -> Val]}

\* A Width-bit unsigned integer composing additive<T>: += and -= wrap.
WordType ==
    [unit |-> "additive", form |-> "TT",
     assign |-> ("addable" :> [p \in Word \X Word |-> (p[1] + p[2]) % (2 ^ Width)]
              @@ "subtractable" :>
                    [p \in Word \X Word |-> (p[1] - p[2] + 2 ^ Width) % (2 ^ Width)])]

BinaryCalled(o, a, b, r) ==
    /\ op' = o /\ args' = <<a, b>> /\ ret' = r.ret
    /\ UNCHANGED <<ty, stack, insts, defs>>

\* t op u and u op t of a commutative generator; x is the T object, y the U.
CallComTU ==
    /\ ty.unit \in CommutativeUnits
    /\ \E a \in Val, b \in UVal :
          LET r == ComTU(ty, ty.unit, a, b)
          IN  BinaryCalled("comTU", a, b, r) /\ x' = r.x /\ y' = r.y /\ hist' = hist
CallComUT ==
    /\ ty.unit \in CommutativeUnits
    /\ \E a \in UVal, b \in Val :
          LET r == ComUT(ty, ty.unit, a, b)
          IN  BinaryCalled("comUT", a, b, r) /\ x' = r.y /\ y' = r.x /\ hist' = hist

\* The expression (a + b) - b on the objects x = a and y = b: first a + b ...
CallAddTT ==
    /\ ty.unit = "additive" /\ op = "none"
    /\ LET r == ComTT(ty, "addable", x, y)
       IN  /\ BinaryCalled("add", x, y, r) /\ x' = r.x /\ y' = r.y
           /\ hist' = Append(hist, [op |-> "add", args |-> <<x, y>>])
\* ... then its result, a temporary, minus b.
CallSubTT ==
    /\ ty.unit = "additive" /\ op = "add"
    /\ LET r == NonTT(ty, "subtractable", ret, y)
       IN  /\ BinaryCalled("sub", ret, y, r) /\ x' = x /\ y' = r.y
           /\ hist' = Append(hist, [op |-> "sub", args |-> <<ret, y>>])

\* ------------------------------------------------------------- composition
\* A class template specialization: the template's name and its arguments.
\* A defaulted argument (typename U = T) is written out.
Spz(u, as) == [unit |-> u, args |-> as]
One(u, a) == Spz(u, <<a>>)
Two(u, a, b) == Spz(u, <<a, b>>)
\* An operator signature: the operator and its operand types.
Sig(o, l, r) == [op |-> o, l |-> l, r |-> r]

\* The base classes of each bundle, in declaration order. With both
\* arguments the same type the partial specialization name<T, T> is the
\* definition instantiated, otherwise the primary template.
TotallyOrderedBases(a, b) ==
    IF a = b
      THEN <<Two("less_than_comparable", a, a), Two("equality_comparable", a, a)>>
      ELSE <<Two("less_than_comparable", a, b), Two("equality_comparable", a, b)>>

AdditiveBases_WithReversed(a, b) ==
    IF a = b
      THEN <<Two("addable", a, a), Two("subtractable", a, a)>>
      ELSE <<Two("addable", a, b), Two("subtractable", a, b),
             Two("rsubtractable", a, b)>>
AdditiveBases(a, b) ==
    IF a = b
      THEN <<Two("addable", a, a), Two("subtractable", a, a)>>
      ELSE <<Two("addable", a, b), Two("subtractable", a, b)>>
MultiplicativeBases(a, b) ==
    IF a = b
      THEN <<Two("multipliable", a, a), Two("dividable", a, a)>>
      ELSE <<Two("multipliable", a, b), Two("dividable", a, b)>>
IntegerMultiplicativeBases(a, b) ==
    IF a = b
      THEN <<Two("multiplicative", a, a), Two("modable", a, a)>>
      ELSE <<Two("multiplicative", a, b), Two("modable", a, b)>>
ArithmeticBases(a, b) ==
    IF a = b
      THEN <<Two("additive", a, a), Two("multiplicative", a, a)>>
      ELSE <<Two("additive", a, b), Two("multiplicative", a, b)>>
IntegerArithmeticBases(a, b) ==
    IF a = b
      THEN <<Two("additive", a, a), Two("integer_multiplicative", a, a)>>
      ELSE <<Two("additive", a, b), Two("integer_multiplicative", a, b)>>
BitwiseBases(a, b) ==
    IF a = b
      THEN <<Two("xorable", a, a), Two("andable", a, a), Two("orable", a, a)>>
      ELSE <<Two("xorable", a, b), Two("andable", a, b), Two("orable", a, b)>>
UnitSteppableBases(a) == <<One("incrementable", a), One("decrementable", a)>>
ShiftableBases(a, b) ==
    IF a = b
      THEN <<Two("left_shiftable", a, a), Two("right_shiftable", a, a)>>
      ELSE <<Two("left_shiftable", a, b), Two("right_shiftable", a, b)>>

RingBases_ReversedInBoth(a, b) ==
    <<Two("additive", a, b), Two("rsubtractable", a, b), Two("multipliable", a, b)>>
RingBases(a, b) ==
    IF a = b
      THEN <<Two("additive", a, a), Two("multipliable", a, a)>>
      ELSE <<Two("additive", a, b), Two("rsubtractable", a, b),
             Two("multipliable", a, b)>>
OrderedRingBases(a, b) ==
    IF a = b
      THEN <<Two("ring_operators", a, a), Two("totally_ordered", a, a)>>
      ELSE <<Two("ring_operators", a, b), Two("totally_ordered", a, b)>>

FieldBases_ReversedInBoth(a, b) ==
    <<Two("ring_operators", a, b), Two("dividable", a, b), Two("rdividable", a, b)>>
FieldBases(a, b) ==
    IF a = b
      THEN <<Two("ring_operators", a, a), Two("dividable", a, a)>>
      ELSE <<Two("ring_operators", a, b), Two("dividable", a, b),
             Two("rdividable", a, b)>>
OrderedFieldBases(a, b) ==
    IF a = b
      THEN <<Two("field_operators", a, a), Two("totally_ordered", a, a)>>
      ELSE <<Two("field_operators", a, b), Two("totally_ordered", a, b)>>
EuclidianRingBases(a, b) ==
    IF a = b
      THEN <<Two("ring_operators", a, a), Two("dividable", a, a),
             Two("modable", a, a)>>
      ELSE <<Two("ring_operators", a, b), Two("dividable", a, b),
             Two("rdividable", a, b), Two("modable", a, b), Two("rmodable", a, b)>>
OrderedEuclidianRingBases(a, b) ==
    IF a = b
      THEN <<Two("totally_ordered", a, a), Two("euclidian_ring_operators", a, a)>>
      ELSE <<Two("totally_ordered", a, b), Two("euclidian_ring_operators", a, b)>>
EuclideanRingBases(a, b) ==
    IF a = b
      THEN <<Two("ring_operators", a, a), Two("dividable", a, a),
             Two("modable", a, a)>>
      ELSE <<Two("ring_operators", a, b), Two("dividable", a, b),
             Two("rdividable", a, b), Two("modable", a, b), Two("rmodable", a, b)>>
OrderedEuclideanRingBases(a, b) ==
    IF a = b
      THEN <<Two("totally_ordered", a, a), Two("euclidean_ring_operators", a, a)>>
      ELSE <<Two("totally_ordered", a, b), Two("euclidean_ring_operators", a, b)>>
OperatorsBases(a, b) ==
    IF a = b
      THEN <<Two("totally_ordered", a, a), Two("integer_arithmetic", a, a),
             Two("bitwise", a, a), One("unit_steppable", a)>>
      ELSE <<Two("totally_ordered", a, b), Two("integer_arithmetic", a, b),
             Two("bitwise", a, b)>>

\* Iterator bundles: <T, P>, and <T, P, D, R> for random access.
InputIteratableBases(a, p) ==
    <<Two("equality_comparable", a, a), One("incrementable", a),
      Two("dereferenceable", a, p)>>
OutputIteratableBases(a) == <<One("incrementable", a)>>
ForwardIteratableBases(a, p) == <<Two("input_iteratable", a, p)>>
BidirectionalIteratableBases(a, p) ==
    <<Two("forward_iteratable", a, p), One("decrementable", a)>>
RandomAccessIteratableBases(a, p, d, r) ==
    <<Two("bidirectional_iteratable", a, p), Two("less_than_comparable", a, a),
      Two("additive", a, d), Spz("subscriptable", <<a, d, r>>)>>

\* Iterator helpers: <T, V, D, P, R>, and <T> for the output iterator.
IteratorHelper(c, v, d, p, r) == Spz("iterator_helper", <<c, v, d, p, r>>)
InputIteratorHelperBases(a, v, d, p, r) ==
    <<Two("input_iteratable", a, p), IteratorHelper("input_iterator_tag", v, d, p, r)>>
OutputIteratorHelperBases(a) ==
    <<One("output_iteratable", a),
      IteratorHelper("output_iterator_tag", "void", "void", "void", "void")>>
ForwardIteratorHelperBases(a, v, d, p, r) ==
    <<Two("forward_iteratable", a, p),
      IteratorHelper("forward_iterator_tag", v, d, p, r)>>
BidirectionalIteratorHelperBases(a, v, d, p, r) ==
    <<Two("bidirectional_iteratable", a, p),
      IteratorHelper("bidirectional_iterator_tag", v, d, p, r)>>
RandomAccessIteratorHelperBases(a, v, d, p, r) ==
    <<Spz("random_access_iteratable", <<a, p, d, r>>),
      IteratorHelper("random_access_iterator_tag", v, d, p, r)>>

\* The direct base classes of the specialization i.
Bases(i) ==
    LET u == i.unit
        a == i.args[1]
        b == i.args[2]
    IN  CASE u = "totally_ordered" -> TotallyOrderedBases(a, b)
          [] u = "additive" -> AdditiveBases(a, b)
          [] u = "multiplicative" -> MultiplicativeBases(a, b)
          [] u = "integer_multiplicative" -> IntegerMultiplicativeBases(a, b)
          [] u = "arithmetic" -> ArithmeticBases(a, b)
          [] u = "integer_arithmetic" -> IntegerArithmeticBases(a, b)
          [] u = "bitwise" -> BitwiseBases(a, b)
          [] u = "unit_steppable" -> UnitSteppableBases(a)
          [] u = "shiftable" -> ShiftableBases(a, b)
          [] u = "ring_operators" -> RingBases(a, b)
          [] u = "ordered_ring_operators" -> OrderedRingBases(a, b)
          [] u = "field_operators" -> FieldBases(a, b)
          [] u = "ordered_field_operators" -> OrderedFieldBases(a, b)
          [] u = "euclidian_ring_operators" -> EuclidianRingBases(a, b)
          [] u = "ordered_euclidian_ring_operators" -> OrderedEuclidianRingBases(a, b)
          [] u = "euclidean_ring_operators" -> EuclideanRingBases(a, b)
          [] u = "ordered_euclidean_ring_operators" -> OrderedEuclideanRingBases(a, b)
          [] u = "operators" -> OperatorsBases(a, b)
          [] u = "input_iteratable" -> InputIteratableBases(a, b)
          [] u = "output_iteratable" -> OutputIteratableBases(a)
          [] u = "forward_iteratable" -> ForwardIteratableBases(a, b)
          [] u = "bidirectional_iteratable" -> BidirectionalIteratableBases(a, b)
          [] u = "random_access_iteratable" ->
                RandomAccessIteratableBases(a, b, i.args[3], i.args[4])
          [] u = "input_iterator_helper" ->
                InputIteratorHelperBases(a, b, i.args[3], i.args[4], i.args[5])
          [] u = "output_iterator_helper" -> OutputIteratorHelperBases(a)
          [] u = "forward_iterator_helper" ->
                ForwardIteratorHelperBases(a, b, i.args[3], i.args[4], i.args[5])
          [] u = "bidirectional_iterator_helper" ->
                BidirectionalIteratorHelperBases(a, b, i.args[3], i.args[4], i.args[5])
          [] u = "random_access_iterator_helper" ->
                RandomAccessIteratorHelperBases(a, b, i.args[3], i.args[4], i.args[5])
          [] OTHER -> <<>>

\* The operator each binary generator is expanded for, by macro.
CommutativeOp ==
    [multipliable |-> "*", addable |-> "+", xorable |-> "^", andable |-> "&",
     orable |-> "|"]
NonCommutativeOp == [subtractable |-> "-", dividable |-> "/", modable |-> "%"]
ReversedOp == [rsubtractable |-> "-", rdividable |-> "/", rmodable |-> "%"]
PlainOp == [left_shiftable |-> "<<", right_shiftable |-> ">>"]
ReversedUnits == DOMAIN ReversedOp
BinaryGenerators ==
    DOMAIN CommutativeOp \cup DOMAIN NonCommutativeOp \cup DOMAIN PlainOp

\* The operators whose definitions the specialization i contains. A unit
\* with a partial specialization <T, T> contributes that one's operators
\* when both arguments are the same type; the reversed units have none.
Defines(i) ==
    LET u == i.unit
        a == i.args[1]
        b == i.args[2]
    IN  CASE u \in {"less_than_comparable", "partially_ordered"} ->
                IF a = b
                  THEN {Sig(">", a, a), Sig("<=", a, a), Sig(">=", a, a)}
                  ELSE {Sig("<=", a, b), Sig(">=", a, b), Sig(">", b, a),
                        Sig("<", b, a), Sig("<=", b, a), Sig(">=", b, a)}
          [] u = "equality_comparable" ->
                IF a = b
                  THEN {Sig("!=", a, a)}
                  ELSE {Sig("==", b, a), Sig("!=", b, a), Sig("!=", a, b)}
          [] u = "equivalent" -> {Sig("==", a, b)}
          [] u \in DOMAIN CommutativeOp ->
                IF a = b
                  THEN {Sig(CommutativeOp[u], a, a)}
                  ELSE {Sig(CommutativeOp[u], a, b), Sig(CommutativeOp[u], b, a)}
          [] u \in DOMAIN NonCommutativeOp -> {Sig(NonCommutativeOp[u], a, b)}
          [] u \in DOMAIN ReversedOp -> {Sig(ReversedOp[u], b, a)}
          [] u \in DOMAIN PlainOp -> {Sig(PlainOp[u], a, b)}
          [] u = "incrementable" -> {Sig("++", a, "int")}
          [] u = "decrementable" -> {Sig("--", a, "int")}
          [] u = "dereferenceable" -> {Sig("->", a, "void")}
          [] u = "subscriptable" -> {Sig("[]", a, b)}
          [] u = "output_iterator_helper" -> {Sig("*", a, "void"), Sig("++", a, "void")}
          [] OTHER -> {}

\* The bundles with a partial specialization <T, T>.
PairedBundles ==
    {"totally_ordered", "additive", "multiplicative", "integer_multiplicative",
     "arithmetic", "integer_arithmetic", "bitwise", "shiftable",
     "ring_operators", "ordered_ring_operators", "field_operators",
     "ordered_field_operators", "euclidian_ring_operators",
     "ordered_euclidian_ring_operators", "euclidean_ring_operators",
     "ordered_euclidean_ring_operators", "operators"}

\* What the definition of a composing type T may name as its base classes:
\* one bundle or iterator helper of the library, or totally_ordered<T> next to
\* bidirectional_iteratable<T, P>.
OrderedIteratorRoots ==
    <<Two("totally_ordered", "T", "T"), Two("bidirectional_iteratable", "T", "P")>>
Compositions ==
    {<<Two(u, "T", "T")>> : u \in PairedBundles}
    \cup {<<Two(u, "T", "U")>> : u \in PairedBundles}
    \cup {<<One("unit_steppable", "T")>>, <<One("output_iteratable", "T")>>,
          <<Two("input_iteratable", "T", "P")>>,
          <<Two("forward_iteratable", "T", "P")>>,
          <<Two("bidirectional_iteratable", "T", "P")>>,
          <<Spz("random_access_iteratable", <<"T", "P", "D", "R">>)>>,
          <<One("output_iterator_helper", "T")>>,
          <<Spz("input_iterator_helper", <<"T", "V", "D", "P", "R">>)>>,
          <<Spz("forward_iterator_helper", <<"T", "V", "D", "P", "R">>)>>,
          <<Spz("bidirectional_iterator_helper", <<"T", "V", "D", "P", "R">>)>>,
          <<Spz("random_access_iterator_helper", <<"T", "V", "D", "P", "R">>)>>,
          OrderedIteratorRoots}
CompTypes == {[unit |-> "composition", roots |-> r] : r \in Compositions}
IsComp == ty.unit = "composition"

\* The next base class is instantiated: its own base classes come next, and
\* the friend and member operators of its definition are defined.
Instantiate ==
    /\ IsComp /\ stack # <<>> /\ Head(stack) \notin insts
    /\ LET i == Head(stack)
       IN  /\ insts' = insts \cup {i}
           /\ defs' = defs \cup {[sig |-> g, by |-> i] : g \in Defines(i)}
           /\ stack' = Bases(i) \o Tail(stack)
           /\ op' = "instantiate" /\ args' = <<i>>
    /\ UNCHANGED <<ty, x, y, ret, hist>>
\* The next base class names a specialization instantiated before: the one
\* instantiation is used again, and nothing is defined.
Reuse ==
    /\ IsComp /\ stack # <<>> /\ Head(stack) \in insts
    /\ stack' = Tail(stack)
    /\ op' = "reuse" /\ args' = <<Head(stack)>>
    /\ hist' = Append(hist, [op |-> "reuse", args |-> <<Head(stack)>>])
    /\ UNCHANGED <<ty, x, y, ret, insts, defs>>

\* The operators defined so far, and the specializations that define one.
Exposed == {d.sig : d \in defs}
Definers(g) == {d.by : d \in {e \in defs : e.sig = g}}
Root(u, a, b) == IsComp /\ ty.roots = <<Two(u, a, b)>>
Complete == IsComp /\ stack = <<>>

\* ------------------------------------------------ claims on comparisons
IsLtc == ty.unit = "less_than_comparable" /\ op # "none"
IsEqc == ty.unit = "equality_comparable" /\ op # "none"

\* The premise "x < y holds" for T operands a, b: the primitive alone, or
\* (strict) the primitive with y < x not holding as well.
PremTT(strict, a, b) == Less(ty, a, b) /\ (strict => ~Less(ty, b, a))
\* The same for a of T and b of U, where the type supplies T < U and T > U.
PremTU(strict, a, b) == Less(ty, a, b) /\ (strict => ~Greater(ty, a, b))

\* What the ordering family must answer for the call made last, whenever the
\* premise makes one operand the lesser.
OrderingVerdict(strict) ==
    IsLtc =>
        LET a == args[1]
            b == args[2]
        IN  CASE op = "gtTT" -> /\ PremTT(strict, b, a) => ret = TRUE
                                /\ PremTT(strict, a, b) => ret = FALSE
              [] op = "leTT" -> PremTT(strict, a, b) => ret = TRUE
              [] op = "geTT" -> /\ PremTT(strict, b, a) => ret = TRUE
                                /\ PremTT(strict, a, b) => ret = FALSE
              [] op = "leTU" -> PremTU(strict, a, b) => ret = TRUE
              [] op = "geTU" -> PremTU(strict, a, b) => ret = FALSE
              [] op = "gtUT" -> PremTU(strict, b, a) => ret = TRUE
              [] op = "geUT" -> PremTU(strict, b, a) => ret = TRUE
              [] op = "ltUT" -> PremTU(strict, b, a) => ret = FALSE
              [] op = "leUT" -> PremTU(strict, b, a) => ret = FALSE

\* C1 as stated: whenever the primitive x < y holds, y > x, x <= y and
\* y >= x hold and x > y, x >= y do not, in less_than_comparable<T,T> and in
\* less_than_comparable<T,U> with its reflected forms.
C1_AsStated == OrderingVerdict(FALSE)

\* C1 amended: the same verdicts, provided the primitive is asymmetric on the
\* operands (y < x does not hold too) and, in the heterogeneous unit, the
\* type's primitive T > U does not hold of a pair of which T < U holds.
C1_Amended == OrderingVerdict(TRUE)

\* C1 witness: t <= u was called for a pair with t < u and not t > u, and
\* answered true.
C1_Witness ==
    /\ IsLtc /\ op = "leTU"
    /\ PremTU(TRUE, args[1], args[2]) /\ ret = TRUE

\* The pairs a primitive of the composed type relates.
Pairs(t) == IF t.form = "TT" THEN Val \X Val ELSE Val \X UVal
\* The call made last gives the same result for every type that agrees with
\* ty on every primitive but one: but <, but > (if it defines one), but ==.
SameForAnyLess ==
    \A r \in SUBSET Pairs(ty) :
        Compare(op, [ty EXCEPT !.lt = r], args[1], args[2]) = ret
SameForAnyGreater ==
    \A r \in SUBSET Pairs(ty) :
        Compare(op, [ty EXCEPT !.gt = r], args[1], args[2]) = ret
SameForAnyEqual ==
    \A r \in SUBSET Pairs(ty) :
        Compare(op, [ty EXCEPT !.eq = r], args[1], args[2]) = ret

\* C9 as stated: every derived ordering operator is a function of the
\* primitive < only: a type with the same < and any other operators gets the
\* same result.
C9_AsStated == IsLtc => (SameForAnyGreater /\ SameForAnyEqual)

\* C9 amended: in less_than_comparable<T,T> every derived operator is a
\* function of T < T only; in less_than_comparable<T,U> the type supplies
\* two primitives, T < U and T > U: T >= U, U > T and U <= T are functions
\* of T < U only, and T <= U, U < T and U >= T are functions of T > U only.
C9_Amended ==
    IsLtc =>
        CASE ty.form = "TT" -> SameForAnyGreater /\ SameForAnyEqual
          [] op \in {"geTU", "gtUT", "leUT"} -> SameForAnyGreater /\ SameForAnyEqual
          [] op \in {"leTU", "ltUT", "geUT"} -> SameForAnyLess /\ SameForAnyEqual

\* C9 witness: t <= u was called and its answer changes with the type's
\* primitive T > U while T < U stays as it is.
C9_Witness ==
    /\ IsLtc /\ op = "leTU"
    /\ ~SameForAnyGreater /\ SameForAnyLess

\* r is a strict weak order on S: irreflexive, transitive, and with a
\* transitive incomparability.
Incomparable(r, a, b) == <<a, b>> \notin r /\ <<b, a>> \notin r
IsStrictWeakOrder(r, S) ==
    /\ \A a \in S : <<a, a>> \notin r
    /\ \A a \in S, b \in S, c \in S :
          (<<a, b>> \in r /\ <<b, c>> \in r) => <<a, c>> \in r
    /\ \A a \in S, b \in S, c \in S :
          (Incomparable(r, a, b) /\ Incomparable(r, b, c)) => Incomparable(r, a, c)

\* C2: when the primitive < is a strict weak order, the == of equivalent<T,T>
\* holds exactly when neither x < y nor y < x, and is reflexive, symmetric
\* and transitive.
C2_Equivalence ==
    (ty.unit = "equivalent" /\ IsStrictWeakOrder(ty.lt, Sample)) =>
        \A a \in Sample, b \in Sample :
            /\ EqvEqTT(ty, a, b) <=> Incomparable(ty.lt, a, b)
            /\ EqvEqTT(ty, a, a)
            /\ EqvEqTT(ty, a, b) => EqvEqTT(ty, b, a)
            /\ \A c \in Sample :
                  (EqvEqTT(ty, a, b) /\ EqvEqTT(ty, b, c)) => EqvEqTT(ty, a, c)

\* C2 witness: under a non-empty strict weak order, == was called on two
\* different values and answered true.
C2_Witness ==
    /\ ty.unit = "equivalent" /\ op = "eqvTT"
    /\ IsStrictWeakOrder(ty.lt, Sample) /\ ty.lt # {}
    /\ args[1] # args[2] /\ ret = TRUE

\* What the equality family must answer for the call made last. In the
\* homogeneous unit x == y and y == x are both the type's primitive.
EqualityVerdict(symmetric) ==
    IsEqc =>
        LET a == args[1]
            b == args[2]
        IN  CASE op = "neTT" ->
                    /\ ret = ~Equal(ty, a, b)
                    /\ IF symmetric
                         THEN Equal(ty, a, b) <=> Equal(ty, b, a)
                         ELSE (ret = EqcNeTT(ty, b, a))
                                <=> (Equal(ty, a, b) <=> Equal(ty, b, a))
              [] op = "eqUT" -> ret = Equal(ty, b, a)
              [] op = "neUT" -> ret = ~Equal(ty, b, a)
              [] op = "neTU" -> ret = ~Equal(ty, a, b)

\* C3 as stated: in every equality unit x == y iff y == x and x != y iff
\* !(x == y); in equality_comparable<T,U>, u == t equals the primitive
\* t == u and u != t, t != u equal its negation.
C3_AsStated == EqualityVerdict(TRUE)

\* C3 amended: x != y iff !(x == y) in every equality unit, and in
\* equality_comparable<T,U> u == t equals the primitive t == u; in
\* equality_comparable<T,T> both x == y and y == x are the type's primitive,
\* which the unit does not make symmetric: x != y agrees with y != x exactly
\* when the primitive agrees on (x, y) and (y, x).
C3_Amended == EqualityVerdict(FALSE)

\* C3 witness: u != t was called for a pair the primitive t == u holds of,
\* and answered false.
C3_Witness ==
    /\ IsEqc /\ op = "neUT"
    /\ Equal(ty, args[2], args[1]) /\ ret = FALSE

\* x and y are incomparable for type t: none of x < y, y < x, x == y holds.
Unordered(t, a, b) == ~Less(t, a, b) /\ ~Less(t, b, a) /\ ~Equal(t, a, b)

\* C11: in partially_ordered<T, T>, whatever < and == the type supplies,
\* x <= y is (x < y or x == y), x >= y is (y < x or x == y) and x > y is
\* y < x; so on incomparable operands <= and >= both return false, whereas
\* the <= and >= of less_than_comparable<T, T>, derived by negation from the
\* same <, both return true there.
C11_PartialOrder ==
    (ty.unit = "partially_ordered" /\ op # "none") =>
        /\ op = "poLeTT" => (ret <=> (Less(ty, x, y) \/ Equal(ty, x, y)))
        /\ op = "poGeTT" => (ret <=> (Less(ty, y, x) \/ Equal(ty, x, y)))
        /\ op = "poGtTT" => (ret <=> Less(ty, y, x))
        /\ (Unordered(ty, x, y) /\ op \in {"poLeTT", "poGeTT"}) =>
              /\ ret = FALSE
              /\ LtcLeTT(ty, x, y) /\ LtcGeTT(ty, x, y)

\* C11 witness: >= was called on two distinct incomparable values, each equal
\* to itself, and returned false where less_than_comparable returns true.
C11_Witness ==
    /\ ty.unit = "partially_ordered" /\ op = "poGeTT" /\ x # y
    /\ Unordered(ty, x, y) /\ Equal(ty, x, x) /\ Equal(ty, y, y)
    /\ ret = FALSE /\ LtcGeTT(ty, x, y)

\* ------------------------------------- claims on steps and binary operators
\* The prefix steps that the postfix calls h name, applied in order to v.
RECURSIVE PrefixSteps(_, _, _)
PrefixSteps(t, h, v) ==
    IF h = <<>> THEN v
    ELSE PrefixSteps(t, Tail(h),
                     IF Head(h).op = "postinc" THEN PreInc(t, v) ELSE PreDec(t, v))
Front(h) == SubSeq(h, 1, Len(h) - 1)

\* C4: each x++ (x--) returns the value x had before the call and leaves x
\* one prefix ++ (--) away from it; after k postfix calls x is k prefix steps
\* away from its initial value, never more.
C4_PostfixStep ==
    (ty.unit = "unit_steppable" /\ hist # <<>>) =>
        LET before == hist[Len(hist)].args[1]
            first == hist[1].args[1]
        IN  /\ ret = before
            /\ x = IF op = "postinc" THEN PreInc(ty, before) ELSE PreDec(ty, before)
            /\ x = PrefixSteps(ty, hist, first)
            /\ ret = PrefixSteps(ty, Front(hist), first)

\* C4 witness: a second or later x++ returned the old value and moved x.
C4_Witness ==
    /\ ty.unit = "unit_steppable" /\ Len(hist) >= 2 /\ op = "postinc"
    /\ ret = hist[Len(hist)].args[1] /\ x # ret
    /\ PreInc(ty, x) # x

\* C5: for a commutative generator with U distinct from T, t op u and u op t
\* both return the copy of the T operand after op= with the U operand, so
\* u op t equals t op u, and neither operand is modified.
C5_Commutative ==
    (ty.unit \in CommutativeUnits /\ op # "none") =>
        LET t == IF op = "comTU" THEN args[1] ELSE args[2]
            u == IF op = "comTU" THEN args[2] ELSE args[1]
        IN  /\ ret = OpAssign(ty, ty.unit, t, u)
            /\ op = "comUT" => ret = ComTU(ty, ty.unit, t, u).ret
            /\ op = "comTU" => ret = ComUT(ty, ty.unit, u, t).ret
            /\ x = t /\ y = u

\* C5 witness: u op t was called and returned a value other than t.
C5_Witness ==
    /\ ty.unit \in CommutativeUnits /\ op = "comUT"
    /\ ret # args[2] /\ ret = OpAssign(ty, ty.unit, args[2], args[1])

\* C6: for Width-bit integers, whose += and -= undo each other, (a + b) - b
\* equals a, and a and b keep their values across the evaluation.
C6_RoundTrip ==
    (ty.unit = "additive" /\ op # "none") =>
        LET a == hist[1].args[1]
            b == hist[1].args[2]
        IN  /\ x = a /\ y = b
            /\ op = "add" => ret = (a + b) % (2 ^ Width)
            /\ op = "sub" => ret = a

\* C6 witness: (a + b) - b was evaluated with b non-zero and a + b wrapping.
C6_Witness ==
    /\ ty.unit = "additive" /\ op = "sub" /\ ret = x
    /\ y # 0 /\ hist[1].args[1] + hist[1].args[2] >= 2 ^ Width
    /\ hist[2].args[1] < x

\* ------------------------------------------------- claims on composition
\* C7: in every bundle of the library, and in a type composing both
\* totally_ordered<T> and bidirectional_iteratable<T, P>, each operator
\* signature is defined by exactly one generator specialization; the two
\* paths to equality_comparable<T> give one != on (T, T), next to the type's
\* own ==, which no generator defines.
C7_OneDefinition ==
    IsComp =>
        /\ \A g \in Exposed : Cardinality(Definers(g)) = 1
        /\ (Complete /\ ty.roots = OrderedIteratorRoots) =>
              /\ Definers(Sig("!=", "T", "T")) = {Two("equality_comparable", "T", "T")}
              /\ Sig("==", "T", "T") \notin Exposed

\* C7 witness: the type composing both bundles is complete, and
\* equality_comparable<T> was named a second time and used again.
C7_Witness ==
    /\ Complete /\ ty.roots = OrderedIteratorRoots
    /\ hist = <<[op |-> "reuse", args |-> <<Two("equality_comparable", "T", "T")>>]>>
    /\ Sig("!=", "T", "T") \in Exposed

\* The bundles that name a reversed unit among the bases of their primary
\* template, by the reversed operator they come to define.
RingLike ==
    {"ring_operators", "ordered_ring_operators", "field_operators",
     "ordered_field_operators", "euclidian_ring_operators",
     "ordered_euclidian_ring_operators", "euclidean_ring_operators",
     "ordered_euclidean_ring_operators"}
FieldLike == RingLike \ {"ring_operators", "ordered_ring_operators"}
EuclideanLike == FieldLike \ {"field_operators", "ordered_field_operators"}
MixedRootIn(bundles) == ty.roots \in {<<Two(u, "T", "U")>> : u \in bundles}

\* C8 as stated: additive<T, U> supplies T+U, U+T, T-U and the reversed U-T,
\* multiplicative<T, U> the reversed U/T and integer_multiplicative<T, U> the
\* reversed U%T.
C8_AsStated ==
    Complete =>
        /\ Root("additive", "T", "U") =>
              {Sig("+", "T", "U"), Sig("+", "U", "T"), Sig("-", "T", "U"),
               Sig("-", "U", "T")} \subseteq Exposed
        /\ Root("multiplicative", "T", "U") => Sig("/", "U", "T") \in Exposed
        /\ Root("integer_multiplicative", "T", "U") => Sig("%", "U", "T") \in Exposed

\* C8 amended: additive<T, U> supplies T+U, U+T and T-U but not the reversed
\* U-T; multiplicative<T, U> supplies T*U, U*T and T/U but not U/T, and
\* integer_multiplicative<T, U> adds T%U but not U%T. The reversed operators
\* come only from the bundles that name a reversed unit: U-T from the ring,
\* field and Euclidean ring bundles, U/T from the field and Euclidean ring
\* bundles, U%T from the Euclidean ring bundles (ordered variants included).
C8_Amended ==
    Complete =>
        /\ Root("additive", "T", "U") =>
              Exposed = {Sig("+", "T", "U"), Sig("+", "U", "T"), Sig("-", "T", "U")}
        /\ Root("multiplicative", "T", "U") =>
              Exposed = {Sig("*", "T", "U"), Sig("*", "U", "T"), Sig("/", "T", "U")}
        /\ Root("integer_multiplicative", "T", "U") =>
              Exposed = {Sig("*", "T", "U"), Sig("*", "U", "T"), Sig("/", "T", "U"),
                         Sig("%", "T", "U")}
        /\ Sig("-", "U", "T") \in Exposed <=> MixedRootIn(RingLike)
        /\ Sig("/", "U", "T") \in Exposed <=> MixedRootIn(FieldLike)
        /\ Sig("%", "U", "T") \in Exposed <=> MixedRootIn(EuclideanLike)

\* C8 witness: additive<T, U> is complete and defines T-U.
C8_Witness ==
    /\ Complete /\ Root("additive", "T", "U")
    /\ Sig("-", "T", "U") \in Exposed /\ Cardinality(insts) = 3

\* The specializations named so far: instantiated, or still to be.
Named == insts \cup {stack[k] : k \in DOMAIN stack}

\* C10: a bundle B<T, T> with a homogeneous specialization composes, directly
\* and through its bases, only units whose arguments are all T, so each
\* binary generator in its <T, T> form, and no reversed unit.
C10_Homogeneous ==
    (IsComp /\ ty.roots \in {<<Two(u, "T", "T")>> : u \in PairedBundles}) =>
        \A i \in Named :
            /\ \A k \in DOMAIN i.args : i.args[k] = "T"
            /\ i.unit \notin ReversedUnits
            /\ \A d \in Defines(i) : d.l = "T" /\ d.r \in {"T", "int"}

\* C10 witness: operators<T, T> is complete, with modable<T, T> and
\* unit_steppable<T> among its bases.
C10_Witness ==
    /\ Complete /\ Root("operators", "T", "T")
    /\ Two("modable", "T", "T") \in insts /\ One("incrementable", "T") \in insts
    /\ Sig("-", "T", "T") \in Exposed

Idle ==
    /\ op = "none" /\ args = <<>> /\ x = 0 /\ y = 0 /\ ret = 0
    /\ hist = <<>> /\ stack = <<>> /\ insts = {} /\ defs = {}

\* A type composing one comparison unit; no operator called yet.
InitCmp == ty \in CmpTypes /\ Idle
\* A type composing unit_steppable<T>, and an object x of it.
InitStep ==
    /\ ty \in StepTypes /\ x \in Val
    /\ op = "none" /\ args = <<>> /\ y = 0 /\ ret = 0
    /\ hist = <<>> /\ stack = <<>> /\ insts = {} /\ defs = {}
\* A type composing one commutative generator with another operand type.
InitCom == ty \in ComTypes /\ Idle
\* Two Width-bit integers a and b.
InitWord ==
    /\ ty = WordType /\ x \in Word /\ y \in Word
    /\ op = "none" /\ args = <<>> /\ ret = 0
    /\ hist = <<>> /\ stack = <<>> /\ insts = {} /\ defs = {}

\* A type whose definition names bundles as base classes, none instantiated yet.
InitComp ==
    /\ ty \in CompTypes /\ stack = ty.roots
    /\ op = "none" /\ args = <<>> /\ x = 0 /\ y = 0 /\ ret = 0
    /\ hist = <<>> /\ insts = {} /\ defs = {}

\* A type composing partially_ordered<T>; no operator called yet.
InitPartial == ty \in PartialTypes /\ Idle

Init == InitCmp \/ InitPartial \/ InitStep \/ InitCom \/ InitWord \/ InitComp
Next ==
    \/ Instantiate \/ Reuse
    \/ CallCompareTT \/ CallCompareTU \/ CallCompareUT
    \/ CallPartialTT
    \/ CallPostInc \/ CallPostDec
    \/ CallComTU \/ CallComUT
    \/ CallAddTT \/ CallSubTT
Spec == Init /\ [][Next]_vars
=============================================================================
